---- MODULE Spec2Model ----
(***************************************************************************)
(* Attio <-> Clay enrichment pipeline: the record store (Attio), the       *)
(* enrichment service (Clay) and one hourly run of src/main.py, modelled   *)
(* as a state machine.  A run is: check_config, process_pending_enrichments*)
(* (resolve pending), send_for_enrichment (submit new work), summary.      *)
(***************************************************************************)
EXTENDS Integers, Sequences, FiniteSets, TLC

\* ------------------------------------------------------------------ bounds
NumRecords == 2
MaxTime == 3
MaxReasonLen == 501
MaxCompanies == 2
MaxCreated == 2

\* ------------------------------------------------------- program constants
BATCH_SIZE == 50
PENDING_LIMIT == 100
ENRICHMENT_TIMEOUT_HOURS == 2
ERROR_MAX_LEN == 500
LINK_LIMIT == 50
SEARCH_LIMIT == 10

\* Python's None for strings, and for a missing timestamp.
None == "None"
NoTime == -1

Ids == 1..NumRecords

\* Python truthiness of an optional string.
Truthy(x) == x /= None /\ x /= ""

\* Python's `a or b`.
PyOr(a, b) == IF Truthy(a) THEN a ELSE b

\* ------------------------------------------------------- wire-shaped values
\* An attribute of a record is a list of entries.  An entry is a dict
\* (kind = "dict") or a bare scalar (kind = "scalar", carried in `value`).
TextEntry(v) == [kind |-> "dict", attribute_type |-> "text", value |-> v, full_name |-> None]
NameEntry(v) == [kind |-> "dict", attribute_type |-> "personal-name", value |-> None, full_name |-> v]
OtherEntry(v, n) == [kind |-> "dict", attribute_type |-> "select", value |-> v, full_name |-> n]
ScalarEntry(v) == [kind |-> "scalar", attribute_type |-> "", value |-> v, full_name |-> None]
EmailEntry(e, o) == [kind |-> "dict", email_address |-> e, original_email_address |-> o]
RefEntry(t) == [kind |-> "dict", target_record_id |-> t]

Text(v) == IF v = None THEN <<>> ELSE <<TextEntry(v)>>

\* ---------------------------------------------------------- value extraction
RECURSIVE FirstEmail(_)
FirstEmail(entries) ==
    IF entries = <<>> THEN None
    ELSE LET entry == Head(entries) IN
         IF entry.kind = "dict" /\ Truthy(PyOr(entry.email_address, entry.original_email_address))
         THEN PyOr(entry.email_address, entry.original_email_address)
         ELSE FirstEmail(Tail(entries))

_extract_email(values) ==
    IF values.email_addresses = <<>> THEN None
    ELSE FirstEmail(values.email_addresses)

_extract_text_value(values, field) ==
    LET field_data == values[field] IN
    IF field_data = <<>> THEN None
    ELSE LET first == field_data[1] IN
         IF first.kind = "dict"
         THEN IF first.attribute_type = "text" THEN first.value
              ELSE IF first.attribute_type = "personal-name" THEN first.full_name
              ELSE PyOr(first.value, first.full_name)
         ELSE first.value

_has_company(values) ==
    IF values.company = <<>> THEN FALSE
    ELSE LET first == values.company[1] IN
         IF first.kind = "dict" THEN Truthy(first.target_record_id) ELSE FALSE

\* ------------------------------------------------------ eligibility classifier
ProcessedStatuses_NoSent == {"enriched", "skipped", "failed"}
ProcessedStatuses_NoFailed == {"sent_to_clay", "enriched", "skipped"}

ProcessedStatuses == {"sent_to_clay", "enriched", "skipped", "failed"}

_needs_enrichment(record) ==
    LET values == record.values
        email == _extract_email(values)
        status == _extract_text_value(values, "clay_enrichment_status")
        job_title == _extract_text_value(values, "job_title")
        has_company == _has_company(values)
        linkedin == _extract_text_value(values, "linkedin")
    IN  IF ~Truthy(email) THEN FALSE
        ELSE IF status \in ProcessedStatuses THEN FALSE
        ELSE ~Truthy(job_title) \/ ~has_company \/ ~Truthy(linkedin)

_needs_company_linking_IgnoreRef(record) ==
    LET values == record.values
        status == _extract_text_value(values, "clay_enrichment_status")
        enriched_company == _extract_text_value(values, "enriched_company_name")
    IN  status = "enriched" /\ Truthy(enriched_company)

_needs_company_linking(record) ==
    LET values == record.values
        status == _extract_text_value(values, "clay_enrichment_status")
        enriched_company == _extract_text_value(values, "enriched_company_name")
    IN  IF status /= "enriched" THEN FALSE
        ELSE IF ~Truthy(enriched_company) THEN FALSE
        ELSE IF _has_company(values) THEN FALSE
        ELSE TRUE

\* ------------------------------------------------------------- record store
Fields == {"email_addresses", "clay_enrichment_status", "job_title", "linkedin",
           "company", "enriched_company_name", "clay_sent_at", "clay_enriched_at",
           "enrichment_error"}
TimeFields == {"clay_sent_at", "clay_enriched_at"}

Rec(id, email, status, job_title, company, linkedin, sent_at, company_name) ==
    [record_id |-> id,
     values |-> [email_addresses |-> IF email = None THEN <<>> ELSE <<EmailEntry(email, None)>>,
                 clay_enrichment_status |-> Text(status),
                 job_title |-> Text(job_title),
                 linkedin |-> Text(linkedin),
                 company |-> IF company = None THEN <<>> ELSE <<RefEntry(company)>>,
                 enriched_company_name |-> Text(company_name),
                 clay_sent_at |-> sent_at,
                 clay_enriched_at |-> NoTime,
                 enrichment_error |-> <<>>]]

\* The records a store may hold when a run starts (the store is filled by
\* the CRM and by earlier runs).
InitRecords(id) ==
    { [Rec(id, None, None, None, None, None, NoTime, None)
         EXCEPT !.values.email_addresses = <<EmailEntry(None, "a@x.com")>>],
      Rec(id, "a@x.com", "sent_to_clay", None, None, None, 0, None),
      [Rec(id, "a@x.com", "sent_to_clay", None, None, None, NoTime, None)
         EXCEPT !.values.job_title = <<NameEntry("CTO")>>],
      Rec(id, "a@x.com", "enriched", "CTO", None, None, 0, "Acme"),
      Rec(id, "a@x.com", "company_linked", "CTO", "c1", None, 0, "Acme"),
      [Rec(id, "a@x.com", None, None, None, None, 0, None)
         EXCEPT !.values.clay_enrichment_status = <<OtherEntry("failed", None)>>],
      [Rec(id, "a@x.com", None, None, None, None, NoTime, None)
         EXCEPT !.values.clay_enrichment_status = <<ScalarEntry("archived")>>] }

\* What the store keeps for a written value: text attributes come back as a
\* one-entry list, timestamps as they were written.
Wire(field, v) == IF field \in TimeFields THEN v ELSE <<TextEntry(v)>>

StorePatch_Append(st, id, updates) ==
    [st EXCEPT ![id].values =
        [f \in Fields |-> IF f \notin DOMAIN updates THEN @[f]
                          ELSE IF f \in TimeFields THEN Wire(f, updates[f])
                          ELSE @[f] \o Wire(f, updates[f])]]

StorePatch(st, id, updates) ==
    [st EXCEPT ![id].values =
        [f \in Fields |-> IF f \in DOMAIN updates THEN Wire(f, updates[f]) ELSE @[f]]]

\* update_record: the PATCH request carries the updates whose value is not None.
IsNone(field, v) ==
    IF field \in TimeFields THEN v = NoTime
    ELSE IF field = "enrichment_error" THEN FALSE
    ELSE v = None

PatchValues(updates) ==
    [k \in {f \in DOMAIN updates : ~IsNone(f, updates[f])} |-> updates[k]]

\* --------------------------------------------------- status transition writer
Slice_NoCut(msg, n) == msg

Slice(msg, n) == IF Len(msg) <= n THEN msg ELSE SubSeq(msg, 1, n)

mark_sent_to_clay_updates(t) ==
    [clay_enrichment_status |-> "sent_to_clay", clay_sent_at |-> t]

mark_enriched_updates(enriched_data, t) ==
    LET base == [clay_enrichment_status |-> "enriched", clay_enriched_at |-> t]
        jt == IF Truthy(enriched_data.job_title)
              THEN [job_title |-> enriched_data.job_title] ELSE <<>>
        li == IF Truthy(enriched_data.linkedin_url)
              THEN [linkedin |-> enriched_data.linkedin_url] ELSE <<>>
    IN  base @@ jt @@ li

mark_failed_updates(error_message) ==
    [clay_enrichment_status |-> "failed",
     enrichment_error |-> Slice(error_message, ERROR_MAX_LEN)]

\* ------------------------------------------------------------------ messages
\* Error messages are strings: sequences of characters.
MSG_NO_DATA ==
    <<"N","o"," ","e","n","r","i","c","h","m","e","n","t"," ","d","a","t","a"," ",
      "r","e","t","u","r","n","e","d"," ","f","r","o","m"," ","C","l","a","y">>
MSG_TIMED_OUT ==
    <<"E","n","r","i","c","h","m","e","n","t"," ","t","i","m","e","d"," ","o","u","t"," ",
      "a","f","t","e","r"," ","2"," ","h","o","u","r","s">>
MSG_SEND_FAILED ==
    <<"F","a","i","l","e","d"," ","t","o"," ","s","e","n","d"," ","t","o"," ","C","l","a","y">>

\* ------------------------------------------------------- enrichment service
ClayRow(ejt, jt, eco, co, eli, li, eph, ph) ==
    [enriched_job_title |-> ejt, job_title |-> jt,
     enriched_company |-> eco, company |-> co,
     enriched_linkedin |-> eli, linkedin_url |-> li,
     enriched_phone |-> eph, phone |-> ph]

\* The rows the service may hold for a submitted record.
ClayRowSet ==
    { ClayRow(None, None, None, None, None, None, None, None),
      ClayRow("CEO", None, "Acme", None, None, None, None, None),
      ClayRow("", "CEO", "", "", None, "in/b", None, None),
      ClayRow(None, None, None, None, None, None, None, "555") }

\* main.py builds the enrichment data of a row.
enriched_data_of(clay_row) ==
    [job_title |-> PyOr(clay_row.enriched_job_title, clay_row.job_title),
     company |-> PyOr(clay_row.enriched_company, clay_row.company),
     linkedin_url |-> PyOr(clay_row.enriched_linkedin, clay_row.linkedin_url),
     phone |-> PyOr(clay_row.enriched_phone, clay_row.phone)]

AnyValue(enriched_data) ==
    \E k \in DOMAIN enriched_data : Truthy(enriched_data[k])

\* ------------------------------------------------------------------ queries
Min(a, b) == IF a <= b THEN a ELSE b
Take(s, n) == SubSeq(s, 1, Min(n, Len(s)))
Ascending == [i \in 1..NumRecords |-> i]
Descending == [i \in 1..NumRecords |-> NumRecords + 1 - i]
RecordsAt(st, ids) == [i \in DOMAIN ids |-> st[ids[i]]]

\* The newest `limit` records of the store (created_at descending: a larger
\* id is a newer record), then the ones that need enrichment.
query_unenriched_records(st, limit) ==
    SelectSeq(RecordsAt(st, Take(Descending, limit)), _needs_enrichment)

IsPending(record) ==
    _extract_text_value(record.values, "clay_enrichment_status") = "sent_to_clay"

\* The keys the driver reads from a record: record_id, email and sent_at hold
\* what the client's extractors read from the record's values.
Flat(record) ==
    [record_id |-> record.record_id,
     email |-> _extract_email(record.values),
     sent_at |-> record.values.clay_sent_at]

RECURSIVE FlatAll(_)
FlatAll(recs) == IF recs = <<>> THEN <<>> ELSE <<Flat(Head(recs))>> \o FlatAll(Tail(recs))

\* The records in flight (status sent_to_clay), at most `limit` of them, as
\* the driver reads them.  The client in src does not define this query.
query_pending_records(st, limit) ==
    Take(FlatAll(SelectSeq(RecordsAt(st, Ascending), IsPending)), limit)

RECURSIVE IdsOf(_)
IdsOf(recs) == IF recs = <<>> THEN {} ELSE {Head(recs).record_id} \cup IdsOf(Tail(recs))

\* Every answer the service can give for the ids asked about: a row, possibly
\* with every field empty, for some of them.  The client in src does not
\* define this lookup.
find_rows_by_attio_ids(attio_ids) ==
    UNION { [found -> ClayRowSet] : found \in SUBSET attio_ids }

\* update_record: the store after the PATCH, given the store's response.
update_record(st, record_id, updates, response) ==
    IF response = "ok" THEN StorePatch(st, record_id, PatchValues(updates)) ELSE st

\* What the resolve loop does with one pending record.
IsTimedOut_Inclusive(sent_at, t) ==
    sent_at /= NoTime /\ sent_at <= t - ENRICHMENT_TIMEOUT_HOURS

IsTimedOut(sent_at, t) ==
    sent_at /= NoTime /\ sent_at < t - ENRICHMENT_TIMEOUT_HOURS

resolve_decision_DropEmpty(record, rows, t) ==
    IF /\ record.record_id \in DOMAIN rows
       /\ AnyValue(enriched_data_of(rows[record.record_id]))
    THEN "mark_enriched"
    ELSE IF IsTimedOut(record.sent_at, t) THEN "mark_failed_timed_out"
    ELSE "untouched"

resolve_decision_NoTimeout(record, rows, t) ==
    IF record.record_id \in DOMAIN rows
    THEN IF AnyValue(enriched_data_of(rows[record.record_id])) THEN "mark_enriched"
         ELSE "mark_failed_no_data"
    ELSE "untouched"

resolve_decision(record, rows, t) ==
    IF record.record_id \in DOMAIN rows
    THEN IF AnyValue(enriched_data_of(rows[record.record_id])) THEN "mark_enriched"
         ELSE "mark_failed_no_data"
    ELSE IF IsTimedOut(record.sent_at, t) THEN "mark_failed_timed_out"
    ELSE "untouched"

\* check_config: the names of the missing environment variables.
EnvNames == {"ATTIO_API_KEY", "CLAY_API_KEY", "CLAY_TABLE_ID"}

check_config_SkipTable(env) == {k \in {"ATTIO_API_KEY", "CLAY_API_KEY"} : ~env[k]}

check_config(env) == {k \in DOMAIN env : ~env[k]}
Envs == [EnvNames -> BOOLEAN]

\* mark_sent_to_clay(self, record_id) takes one argument besides self; the
\* driver calls it with record_id and clay_row_id.
MARK_SENT_TO_CLAY_PARAMS == 1
MARK_SENT_TO_CLAY_ARGS == 2

Responses == {"ok", "rejected", "raised"}
NoPatch == [record_id |-> 0, values |-> <<>>, response |-> "none"]
NoCrash == [phase |-> "none", record_id |-> 0]

VARIABLES
    store,          \* the record store: record id -> record
    now,            \* the clock, in hours
    pc,             \* where the run is: idle, pending, resolve, unenriched, submit, summary
    exit_code,      \* how the last run ended: none, config, crash, ok, errors
    pending,        \* resolve phase: the pending records still to visit
    clay_rows,      \* resolve phase: record id -> row found in the service
    now0,           \* resolve phase: `now` taken when the phase started
    records,        \* submit phase: the records still to visit
    enriched_count, failed_count, sent_count, error_count,
    submit_calls,   \* ids handed to the service's submit in this run
    acked,          \* ids whose submission the service acknowledged in this run
    store0,         \* the store as it was when this run started
    last_patch,     \* the last PATCH of this run and the store's response
    crashed,        \* the phase and record where an exception ended this run
    phases,         \* the phases this run has entered
    env_incomplete, \* the last run was started with a required variable not set
    people,         \* client calls: the record store the calls are made on
    companies,      \* client calls: the store's company records, oldest first
    created,        \* client calls: the names of the companies created, in order
    last_call       \* client calls: the last call made and what it returned

\* The variables the client calls (further down) are stated in; a run of
\* main leaves them alone.
client_vars == <<people, companies, created, last_call>>

vars == <<store, now, pc, exit_code, pending, clay_rows, now0, records,
          enriched_count, failed_count, sent_count, error_count,
          submit_calls, acked, store0, last_patch, crashed, phases, env_incomplete,
          client_vars>>

NoCall == [method |-> "none"]
NoClientCalls ==
    /\ people = <<>>
    /\ companies = <<>>
    /\ created = <<>>
    /\ last_call = NoCall

Init ==
    /\ store \in [Ids -> UNION {InitRecords(i) : i \in Ids}]
    /\ \A i \in Ids : store[i].record_id = i
    /\ now = 0
    /\ pc = "idle"
    /\ exit_code = "none"
    /\ pending = <<>>
    /\ clay_rows = <<>>
    /\ now0 = 0
    /\ records = <<>>
    /\ enriched_count = 0 /\ failed_count = 0 /\ sent_count = 0 /\ error_count = 0
    /\ submit_calls = {}
    /\ acked = {}
    /\ store0 = store
    /\ last_patch = NoPatch
    /\ crashed = NoCrash
    /\ phases = {}
    /\ env_incomplete = FALSE
    /\ NoClientCalls

\* An uncaught exception ends the run.
Raise(phase, record_id) ==
    /\ pc' = "idle"
    /\ exit_code' = "crash"
    /\ crashed' = [phase |-> phase, record_id |-> record_id]

\* main, started at hour t: check_config exits when a variable is missing.
run_starts(env, t) ==
    /\ pc = "idle"
    /\ now' = t
    /\ pending' = <<>> /\ clay_rows' = <<>> /\ records' = <<>> /\ now0' = 0
    /\ enriched_count' = 0 /\ failed_count' = 0 /\ sent_count' = 0 /\ error_count' = 0
    /\ submit_calls' = {}
    /\ acked' = {}
    /\ store0' = store
    /\ last_patch' = NoPatch
    /\ crashed' = NoCrash
    /\ phases' = {}
    /\ env_incomplete' = (\E k \in EnvNames : ~env[k])
    /\ IF check_config(env) /= {}
       THEN pc' = "idle" /\ exit_code' = "config"
       ELSE pc' = "pending" /\ exit_code' = "none"
    /\ UNCHANGED <<store, client_vars>>

\* main: the hourly run starts.
main(env) ==
    /\ now < MaxTime
    /\ run_starts(env, now + 1)

\* main, in an hour after MaxTime: the clock is not counted past MaxTime.
\* Every clay_sent_at in the store is MaxTime - ENRICHMENT_TIMEOUT_HOURS - 1
\* or earlier (SentAtBeforeHorizon), so what is timed out then stays timed out.
main_late(env) ==
    /\ now = MaxTime
    /\ run_starts(env, now)

\* process_pending_enrichments, up to the loop: the two queries.
process_pending_enrichments(response) ==
    /\ pc = "pending"
    /\ phases' = phases \cup {"resolve"}
    /\ IF response = "raised"
       THEN /\ Raise("resolve", 0)
            /\ UNCHANGED <<pending, clay_rows, now0>>
       ELSE LET found == IF response = "ok"
                         THEN query_pending_records(store, PENDING_LIMIT) ELSE <<>>
            IN  /\ pending' = found
                /\ IF found = <<>>
                   THEN /\ pc' = "unenriched"
                        /\ UNCHANGED <<clay_rows, now0>>
                   ELSE /\ pc' = "resolve"
                        /\ now0' = now
                        /\ clay_rows' \in find_rows_by_attio_ids(IdsOf(found))
                /\ UNCHANGED <<exit_code, crashed>>
    /\ UNCHANGED <<store, now, records, enriched_count, failed_count, sent_count,
                   error_count, submit_calls, acked, store0, last_patch, env_incomplete,
                   client_vars>>

\* One iteration of the resolve loop.
resolve_record(response) ==
    /\ pc = "resolve"
    /\ pending /= <<>>
    /\ LET record == Head(pending)
           record_id == record.record_id
           decision == resolve_decision(record, clay_rows, now0)
           updates ==
               IF decision = "mark_enriched"
               THEN mark_enriched_updates(enriched_data_of(clay_rows[record_id]), now)
               ELSE IF decision = "mark_failed_no_data" THEN mark_failed_updates(MSG_NO_DATA)
               ELSE mark_failed_updates(MSG_TIMED_OUT)
       IN  IF decision = "untouched"
           THEN /\ response = "ok"
                /\ pending' = Tail(pending)
                /\ pc' = IF Tail(pending) = <<>> THEN "unenriched" ELSE "resolve"
                /\ UNCHANGED <<store, last_patch, enriched_count, failed_count,
                               exit_code, crashed>>
           ELSE /\ last_patch' = [record_id |-> record_id,
                                  values |-> PatchValues(updates),
                                  response |-> response]
                /\ IF response = "raised"
                   THEN /\ Raise("resolve", record_id)
                        /\ UNCHANGED <<store, pending, enriched_count, failed_count>>
                   ELSE /\ store' = update_record(store, record_id, updates, response)
                        /\ pending' = Tail(pending)
                        /\ pc' = IF Tail(pending) = <<>> THEN "unenriched" ELSE "resolve"
                        /\ enriched_count' =
                             IF decision = "mark_enriched" /\ response = "ok"
                             THEN enriched_count + 1 ELSE enriched_count
                        /\ failed_count' =
                             IF \/ decision = "mark_enriched" /\ response /= "ok"
                                \/ decision /= "mark_enriched" /\ response = "ok"
                             THEN failed_count + 1 ELSE failed_count
                        /\ UNCHANGED <<exit_code, crashed>>
    /\ UNCHANGED <<now, clay_rows, now0, records, sent_count, error_count,
                   submit_calls, acked, store0, phases, env_incomplete, client_vars>>

\* send_for_enrichment, up to the loop: the query.
send_for_enrichment(response) ==
    /\ pc = "unenriched"
    /\ phases' = phases \cup {"submit"}
    /\ IF response = "raised"
       THEN /\ Raise("submit", 0)
            /\ UNCHANGED records
       ELSE LET found == IF response = "ok"
                         THEN query_unenriched_records(store, BATCH_SIZE) ELSE <<>>
            IN  /\ records' = found
                /\ pc' = IF found = <<>> THEN "summary" ELSE "submit"
                /\ UNCHANGED <<exit_code, crashed>>
    /\ UNCHANGED <<store, now, pending, clay_rows, now0, enriched_count, failed_count,
                   sent_count, error_count, submit_calls, acked, store0, last_patch,
                   env_incomplete, client_vars>>

\* One iteration of the submit loop.  clay_row_id is the service's answer
\* (None: the submission was rejected or failed).
submit_record(clay_row_id, response) ==
    /\ pc = "submit"
    /\ records /= <<>>
    /\ LET record == Flat(Head(records))
           record_id == record.record_id
           continue == /\ records' = Tail(records)
                       /\ pc' = IF Tail(records) = <<>> THEN "summary" ELSE "submit"
                       /\ UNCHANGED <<exit_code, crashed>>
       IN  IF ~Truthy(record.email)
           THEN /\ clay_row_id = None /\ response = "ok"
                /\ continue
                /\ UNCHANGED <<store, last_patch, sent_count, error_count, submit_calls, acked>>
           ELSE /\ submit_calls' = submit_calls \cup {record_id}
                /\ acked' = IF Truthy(clay_row_id) THEN acked \cup {record_id} ELSE acked
                /\ IF Truthy(clay_row_id)
                   THEN IF MARK_SENT_TO_CLAY_ARGS /= MARK_SENT_TO_CLAY_PARAMS
                        THEN \* TypeError: no request is made.
                             /\ response = "ok"
                             /\ Raise("submit", record_id)
                             /\ UNCHANGED <<store, last_patch, records, sent_count, error_count>>
                        ELSE /\ last_patch' = [record_id |-> record_id,
                                               values |-> PatchValues(mark_sent_to_clay_updates(now)),
                                               response |-> response]
                             /\ IF response = "raised"
                                THEN /\ Raise("submit", record_id)
                                     /\ UNCHANGED <<store, records, sent_count, error_count>>
                                ELSE /\ store' = update_record(store, record_id,
                                                     mark_sent_to_clay_updates(now), response)
                                     /\ sent_count' = IF response = "ok" THEN sent_count + 1 ELSE sent_count
                                     /\ error_count' = IF response = "ok" THEN error_count ELSE error_count + 1
                                     /\ continue
                   ELSE /\ last_patch' = [record_id |-> record_id,
                                          values |-> PatchValues(mark_failed_updates(MSG_SEND_FAILED)),
                                          response |-> response]
                        /\ IF response = "raised"
                           THEN /\ Raise("submit", record_id)
                                /\ UNCHANGED <<store, records, sent_count, error_count>>
                           ELSE /\ store' = update_record(store, record_id,
                                                mark_failed_updates(MSG_SEND_FAILED), response)
                                /\ error_count' = error_count + 1
                                /\ UNCHANGED sent_count
                                /\ continue
    /\ UNCHANGED <<now, pending, clay_rows, now0, enriched_count, failed_count,
                   store0, phases, env_incomplete, client_vars>>

\* The summary: the run ends.
summary ==
    /\ pc = "summary"
    /\ pc' = "idle"
    /\ exit_code' = IF failed_count + error_count > 0 THEN "errors" ELSE "ok"
    /\ UNCHANGED <<store, now, pending, clay_rows, now0, records, enriched_count,
                   failed_count, sent_count, error_count, submit_calls, acked,
                   store0, last_patch, crashed, phases, env_incomplete, client_vars>>

Next ==
    \/ \E env \in Envs : main(env)
    \/ \E response \in Responses : process_pending_enrichments(response)
    \/ \E response \in Responses : resolve_record(response)
    \/ \E response \in Responses : send_for_enrichment(response)
    \/ \E clay_row_id \in {None, "row1"}, response \in Responses :
          submit_record(clay_row_id, response)
    \/ summary

Spec == Init /\ [][Next]_vars

\* ------------------------------------------------------------------ claims
StatusOf(record) == _extract_text_value(record.values, "clay_enrichment_status")
TextOf(record, field) == _extract_text_value(record.values, field)
InFlightOrTerminal == {"sent_to_clay", "enriched", "company_linked", "skipped", "failed"}

\* C1: a record that is sent_to_clay when a pass starts is never handed to the
\* enrichment service's submit during that pass, however often passes repeat.
C1_NoResubmitOfSent ==
    \A i \in Ids : StatusOf(store0[i]) = "sent_to_clay" => i \notin submit_calls

\* C1 witness: the submit phase of a pass has run to its end and submitted
\* another record, while some record was sent_to_clay when the pass started.
C1_Witness ==
    /\ pc = "summary"
    /\ submit_calls /= {}
    /\ \E i \in Ids : StatusOf(store0[i]) = "sent_to_clay" /\ StatusOf(store[i]) = "sent_to_clay"

\* C2: a record whose status is in flight or terminal (sent_to_clay, enriched,
\* company_linked, skipped, failed) when a pass starts is never submitted to the
\* enrichment service, whatever its other fields hold.
C2_NoResubmitOfTerminal ==
    \A i \in Ids : StatusOf(store0[i]) \in InFlightOrTerminal => i \notin submit_calls

\* C3: needs_enrichment is true iff email is present, the status is none of
\* sent_to_clay, enriched, company_linked, skipped, failed, and at least one of
\* job_title, company_ref, linkedin is absent.
C3_NeedsEnrichmentIff ==
    \A i \in Ids :
        _needs_enrichment(store[i]) <=>
            /\ Truthy(_extract_email(store[i].values))
            /\ StatusOf(store[i]) \notin InFlightOrTerminal
            /\ \/ ~Truthy(TextOf(store[i], "job_title"))
               \/ ~_has_company(store[i].values)
               \/ ~Truthy(TextOf(store[i], "linkedin"))

\* C4: in the resolve phase, a pending record whose result has a non-empty
\* field becomes enriched and every non-empty result field is written to it:
\* job_title as job_title, company name as enriched_company_name, linkedin
\* url as linkedin.
C4_EnrichedWritesResult ==
    \A i \in DOMAIN clay_rows :
        LET data == enriched_data_of(clay_rows[i]) IN
        ( /\ last_patch.record_id = i
          /\ last_patch.response = "ok"
          /\ StatusOf(store0[i]) = "sent_to_clay"
          /\ AnyValue(data) )
        => /\ StatusOf(store[i]) = "enriched"
           /\ Truthy(data.job_title) => TextOf(store[i], "job_title") = data.job_title
           /\ Truthy(data.company) => TextOf(store[i], "enriched_company_name") = data.company
           /\ Truthy(data.linkedin_url) => TextOf(store[i], "linkedin") = data.linkedin_url

\* C5: every record that needs company linking when a pass starts is, when the
\* pass has run to its end, linked to a company and in status company_linked.
C5_LinkPhaseLinks ==
    (pc = "idle" /\ exit_code \in {"ok", "errors"})
    => \A i \in Ids :
          _needs_company_linking(store0[i])
          => StatusOf(store[i]) = "company_linked" /\ _has_company(store[i].values)

\* C6: a record whose submission the service acknowledged is in sent_to_clay,
\* its sent_at is the current time, and it is counted as submitted.
C6_AckedIsSent ==
    /\ \A i \in acked :
          /\ StatusOf(store[i]) = "sent_to_clay"
          /\ store[i].values.clay_sent_at = now
    /\ sent_count = Cardinality(acked)

\* The PATCH that the failed transition with this reason makes for a record.
FailedPatch(i, reason, response) ==
    [record_id |-> i,
     values |-> [clay_enrichment_status |-> "failed", enrichment_error |-> reason],
     response |-> response]

\* C7: in the resolve phase, a pending record with no result and
\* now - sent_at > timeout gets the failed transition with the timed-out
\* reason (the record is failed with that reason once the store accepts the
\* write); a pending record with no result and now - sent_at <= timeout (or no
\* sent_at) is left untouched: no write is made and the store does not change.
C7_TimeoutMonotonicity ==
    [][ ( /\ pc = "resolve"
          /\ pending /= <<>>
          /\ Head(pending).record_id \notin DOMAIN clay_rows )
        => LET i == Head(pending).record_id IN
           IF /\ Head(pending).sent_at /= NoTime
              /\ now - Head(pending).sent_at > ENRICHMENT_TIMEOUT_HOURS
           THEN /\ \E response \in Responses :
                      last_patch' = FailedPatch(i, MSG_TIMED_OUT, response)
                /\ last_patch'.response = "ok"
                   => /\ StatusOf(store'[i]) = "failed"
                      /\ store'[i].values.enrichment_error = <<TextEntry(MSG_TIMED_OUT)>>
                /\ last_patch'.response /= "ok" => store' = store
           ELSE store' = store /\ last_patch' = last_patch
      ]_vars

\* C7 witness: a record sent more than the timeout ago, with no result, has
\* just been failed with the timed-out reason.
C7_Witness ==
    \E i \in Ids :
        /\ StatusOf(store0[i]) = "sent_to_clay"
        /\ now - store0[i].values.clay_sent_at > ENRICHMENT_TIMEOUT_HOURS
        /\ i \notin DOMAIN clay_rows
        /\ last_patch = FailedPatch(i, MSG_TIMED_OUT, "ok")
        /\ StatusOf(store[i]) = "failed"

C9_PartialBatchResilience ==
    crashed.record_id /= 0
    => /\ LET rest == IF crashed.phase = "resolve" THEN pending ELSE records
          IN  \A k \in 1..Len(rest) : rest[k].record_id = crashed.record_id
       /\ exit_code = "errors"
       /\ failed_count + error_count = 1

\* C10: a run whose resolve phase ended with a fatal error has still attempted
\* the submit phase.
C10_PhaseIsolation ==
    (pc = "idle" /\ crashed.phase = "resolve") => "submit" \in phases

\* C11: a status transition whose write the store rejects leaves the record's
\* status as it was, and the driver counts the record as an error in the run
\* report (failed or error count goes up by one); for every transition the
\* driver attempts.
C11_RejectedWriteIsError ==
    [][ ( /\ pc \in {"resolve", "submit"}
          /\ last_patch' /= last_patch
          /\ last_patch'.response = "rejected" )
        => LET i == last_patch'.record_id IN
           /\ StatusOf(store'[i]) = StatusOf(store[i])
           /\ failed_count' + error_count' = failed_count + error_count + 1
      ]_vars

\* The values the status field is specified to hold (None and "": empty).
KnownStatuses ==
    {None, "", "pending", "sent_to_clay", "enriched", "company_linked", "skipped", "failed"}

\* C13: a record whose status, when a pass starts, is outside the known
\* statuses is treated as already processed: the pass neither submits it to
\* the enrichment service nor writes any field of it.
C13_UnknownStatusUntouched ==
    \A i \in Ids :
        StatusOf(store0[i]) \notin KnownStatuses
        => i \notin submit_calls /\ store[i] = store0[i]

\* sent_at is set exactly in sent_to_clay and the later happy-path statuses.
SentAtIffSent(record) ==
    record.values.clay_sent_at /= NoTime
    <=> StatusOf(record) \in {"sent_to_clay", "enriched", "company_linked"}

\* C15: sent_at is set iff the status is sent_to_clay, enriched or
\* company_linked, in every state the core's transitions reach: a transition
\* of a record for which this holds leaves it holding.
C15_SentAtIffSent ==
    [][ \A i \in Ids :
          (SentAtIffSent(store[i]) /\ store'[i] /= store[i]) => SentAtIffSent(store'[i])
      ]_vars

\* C16: a submission the service rejects makes the driver apply the failed
\* transition with the reason that sending failed (the record is failed once
\* the store accepts the write), and a record failed that way is not submitted
\* again and stays as it is in every later step.
C16_RejectedSubmissionFails ==
    [][ \A i \in Ids :
          /\ (i \in submit_calls' /\ i \notin submit_calls /\ i \notin acked')
             => /\ \E response \in Responses :
                      last_patch' = FailedPatch(i, MSG_SEND_FAILED, response)
                /\ last_patch'.response = "ok"
                   => /\ StatusOf(store'[i]) = "failed"
                      /\ store'[i].values.enrichment_error = <<TextEntry(MSG_SEND_FAILED)>>
          /\ ( /\ StatusOf(store[i]) = "failed"
               /\ store[i].values.enrichment_error = <<TextEntry(MSG_SEND_FAILED)>> )
             => /\ i \in submit_calls' => i \in submit_calls
                /\ store'[i] = store[i]
      ]_vars

\* C16 witness: a record that an earlier pass failed after a rejected
\* submission has gone through the submit phase of a later pass, which
\* submitted another record but not this one.
C16_Witness ==
    \E i \in Ids :
        /\ StatusOf(store0[i]) = "failed"
        /\ store0[i].values.enrichment_error = <<TextEntry(MSG_SEND_FAILED)>>
        /\ store[i] = store0[i]
        /\ pc = "summary"
        /\ submit_calls /= {}
        /\ i \notin submit_calls

\* C19: a run started with a required configuration value missing exits with
\* the configuration error before any phase: it enters no phase, submits
\* nothing, makes no PATCH and leaves the store as it was.
C19_ConfigAbort ==
    env_incomplete
    => /\ exit_code = "config"
       /\ pc = "idle"
       /\ phases = {}
       /\ submit_calls = {}
       /\ last_patch = NoPatch
       /\ store = store0

\* C19 witness: a run started with a value missing has exited, with a record
\* in flight and a record that the submit phase would have picked up.
C19_Witness ==
    /\ env_incomplete
    /\ exit_code = "config"
    /\ \E i \in Ids : StatusOf(store[i]) = "sent_to_clay"
    /\ \E i \in Ids : _needs_enrichment(store[i])

\* ------------------------------------------------ client calls on one record
\* The transition writer and the link query of AttioClient, called directly
\* on a store that holds one record, with no run of main in progress.
driver_vars == <<store, pc, exit_code, pending, clay_rows, now0, records,
                 enriched_count, failed_count, sent_count, error_count,
                 submit_calls, acked, store0, last_patch, crashed, phases, env_incomplete>>

NoRun ==
    /\ store = <<>> /\ store0 = <<>>
    /\ pc = "idle" /\ exit_code = "none"
    /\ pending = <<>> /\ clay_rows = <<>> /\ now0 = 0 /\ records = <<>>
    /\ enriched_count = 0 /\ failed_count = 0 /\ sent_count = 0 /\ error_count = 0
    /\ submit_calls = {} /\ acked = {}
    /\ last_patch = NoPatch /\ crashed = NoCrash /\ phases = {}
    /\ env_incomplete = FALSE

PersonId == 1

\* Reasons on both sides of the cut: a string of n digits, and a message of
\* the driver.
Digits == <<"0", "1", "2", "3", "4", "5", "6", "7", "8", "9">>
Reason(n) == [k \in 1..n |-> Digits[(k % 10) + 1]]
Reasons == {Reason(0), Reason(ERROR_MAX_LEN), Reason(MaxReasonLen), MSG_NO_DATA}

\* The enrichment data main builds from the service's rows.
EnrichedData == {enriched_data_of(clay_row) : clay_row \in ClayRowSet}

\* last_call.again: the call before this one was the same call (same method,
\* record and input) and the store accepted both.
mark_failed(record_id, error_message, response) ==
    /\ people' = update_record(people, record_id, mark_failed_updates(error_message), response)
    /\ last_call' = [method |-> "mark_failed", record_id |-> record_id,
                     error_message |-> error_message, response |-> response,
                     again |-> /\ response = "ok"
                               /\ last_call.method = "mark_failed"
                               /\ last_call.response = "ok"
                               /\ last_call.record_id = record_id
                               /\ last_call.error_message = error_message]
    /\ UNCHANGED <<now, companies, created, driver_vars>>

mark_enriched(record_id, enriched_data, response) ==
    /\ people' = update_record(people, record_id,
                               mark_enriched_updates(enriched_data, now), response)
    /\ last_call' = [method |-> "mark_enriched", record_id |-> record_id,
                     enriched_data |-> enriched_data, response |-> response,
                     again |-> /\ response = "ok"
                               /\ last_call.method = "mark_enriched"
                               /\ last_call.response = "ok"
                               /\ last_call.record_id = record_id
                               /\ last_call.enriched_data = enriched_data]
    /\ UNCHANGED <<now, companies, created, driver_vars>>

\* Time passes between two calls.
Tick ==
    /\ now < MaxTime
    /\ now' = now + 1
    /\ UNCHANGED <<client_vars, driver_vars>>

WriterInit ==
    /\ NoRun
    /\ now = 0
    /\ people \in [{PersonId} -> InitRecords(PersonId)]
    /\ companies = <<>>
    /\ created = <<>>
    /\ last_call = NoCall

WriterNext ==
    \/ \E error_message \in Reasons, response \in Responses :
          mark_failed(PersonId, error_message, response)
    \/ \E enriched_data \in EnrichedData, response \in Responses :
          mark_enriched(PersonId, enriched_data, response)
    \/ Tick

WriterSpec == WriterInit /\ [][WriterNext]_vars

\* The step applies again, with the same input, the transition that the last
\* call applied with success: failed, or enriched with a non-empty result.
SameTransitionAgain ==
    /\ now' = now
    /\ last_call'.method \in {"mark_failed", "mark_enriched"}
    /\ last_call'.again
    /\ last_call'.method = "mark_enriched" => AnyValue(last_call'.enriched_data)

\* C12: the transition writer is idempotent: applying the failed transition,
\* or the enriched transition with the same non-empty result, a second time
\* leaves every field of the record as the first application left it.
C12_WriterIdempotent ==
    [][ SameTransitionAgain
        => people'[last_call'.record_id] = people[last_call'.record_id]
      ]_vars

\* C12 as amended: the second application leaves every field but
\* clay_enriched_at as the first left it (an overwrite with the same values,
\* nothing appended), and the enriched transition sets clay_enriched_at to the
\* time of the application.
C12_WriterOverwrites ==
    [][ SameTransitionAgain
        => LET before == people[last_call'.record_id].values
               after == people'[last_call'.record_id].values
           IN  /\ \A f \in Fields \ {"clay_enriched_at"} : after[f] = before[f]
               /\ after.clay_enriched_at =
                    IF last_call'.method = "mark_enriched" THEN now
                    ELSE before.clay_enriched_at
      ]_vars

\* C12 witness: the enriched transition has just been applied for the second
\* time in a row, with the same non-empty result.
C12_Witness ==
    /\ last_call.method = "mark_enriched"
    /\ last_call.again
    /\ last_call.enriched_data.job_title = "CEO"
    /\ now > 0
    /\ LET values == people[PersonId].values
       IN  /\ values.clay_enriched_at = now
           /\ values.job_title = <<TextEntry("CEO")>>
           /\ values.clay_enrichment_status = <<TextEntry("enriched")>>

\* C20: the error message a failed transition stores on the record is the
\* first 500 characters of the reason given: its length never exceeds 500.
C20_ErrorTruncated ==
    (last_call.method = "mark_failed" /\ last_call.response = "ok")
    => LET stored == people[last_call.record_id].values.enrichment_error
           reason == last_call.error_message
       IN  /\ Len(stored) = 1
           /\ Len(stored[1].value) = Min(Len(reason), ERROR_MAX_LEN)
           /\ \A k \in 1..Len(stored[1].value) : stored[1].value[k] = reason[k]

\* C20 witness: a failed transition with a reason longer than 500 characters
\* has stored 500 of them.
C20_Witness ==
    /\ last_call.method = "mark_failed"
    /\ last_call.response = "ok"
    /\ Len(last_call.error_message) > ERROR_MAX_LEN
    /\ Len(people[PersonId].values.enrichment_error[1].value) = ERROR_MAX_LEN

\* ------------------------------------------------------------ the link query
\* The records the link query may meet: every shape of status, of enriched
\* company name and of company reference.
PersonStatuses ==
    { <<>>, Text("pending"), Text("sent_to_clay"), Text("enriched"),
      <<OtherEntry("enriched", None)>>, <<ScalarEntry("enriched")>>,
      Text("company_linked") }
PersonCompanyNames == { <<>>, Text(""), Text("Acme"), <<ScalarEntry("Acme")>> }
PersonCompanies == { <<>>, <<RefEntry("c1")>>, <<RefEntry(None)>>, <<ScalarEntry("c1")>> }

PersonRecords ==
    { [Rec(PersonId, "a@x.com", None, "CTO", None, None, 0, None)
         EXCEPT !.values.clay_enrichment_status = status,
                !.values.enriched_company_name = company_name,
                !.values.company = company] :
      status \in PersonStatuses,
      company_name \in PersonCompanyNames,
      company \in PersonCompanies }

\* query_enriched_without_company: the store's records (here one, so the sort
\* has nothing to order), at most `limit`, that need company linking.
enriched_without_company(st, limit) ==
    SelectSeq(Take(<<st[PersonId]>>, limit), _needs_company_linking)

query_enriched_without_company(response) ==
    /\ last_call' = [method |-> "query_enriched_without_company",
                     response |-> response,
                     result |-> IF response = "ok"
                                THEN enriched_without_company(people, LINK_LIMIT)
                                ELSE <<>>]
    /\ UNCHANGED <<now, people, companies, created, driver_vars>>

LinkQueryInit ==
    /\ NoRun
    /\ now = 0
    /\ people \in [{PersonId} -> PersonRecords]
    /\ companies = <<>>
    /\ created = <<>>
    /\ last_call = NoCall

LinkQueryNext == \E response \in Responses : query_enriched_without_company(response)

LinkQuerySpec == LinkQueryInit /\ [][LinkQueryNext]_vars

\* C14: needs_company_linking selects a record iff its status is enriched,
\* its enriched_company_name is non-empty and it has no company reference; a
\* record that has a company reference is never selected.
C14_NeedsLinkingIff ==
    (last_call.method = "query_enriched_without_company" /\ last_call.response = "ok")
    => LET record == people[PersonId]
           selected == \E k \in DOMAIN last_call.result : last_call.result[k] = record
       IN  /\ selected <=> /\ StatusOf(record) = "enriched"
                           /\ Truthy(TextOf(record, "enriched_company_name"))
                           /\ ~_has_company(record.values)
           /\ _has_company(record.values) => ~selected

\* C14 witness: the link query has run over an enriched record that has an
\* enriched company name and a company reference, and has not selected it.
C14_Witness ==
    /\ last_call.method = "query_enriched_without_company"
    /\ last_call.response = "ok"
    /\ last_call.result = <<>>
    /\ StatusOf(people[PersonId]) = "enriched"
    /\ TextOf(people[PersonId], "enriched_company_name") = "Acme"
    /\ people[PersonId].values.company = <<RefEntry("c1")>>

\* ------------------------------------------------------- company resolution
\* Company names are strings: sequences of characters.  NoneStr is Python's
\* None for such a string, NoId the None of a company record id.
NoneStr == <<None>>
NoId == 0
TruthyStr(s) == s /= NoneStr /\ s /= <<>>

UPPERCASE == <<"A","B","C","D","E","F","G","H","I","J","K","L","M",
               "N","O","P","Q","R","S","T","U","V","W","X","Y","Z">>
LOWERCASE == <<"a","b","c","d","e","f","g","h","i","j","k","l","m",
               "n","o","p","q","r","s","t","u","v","w","x","y","z">>

\* str.lower
LowerChar(c) ==
    IF \E k \in DOMAIN UPPERCASE : UPPERCASE[k] = c
    THEN LOWERCASE[CHOOSE k \in DOMAIN UPPERCASE : UPPERCASE[k] = c]
    ELSE c
lower(s) == [k \in 1..Len(s) |-> LowerChar(s[k])]

NAME_ACME_UPPER == <<"A","C","M","E">>
NAME_ACME == <<"A","c","m","e">>
NAME_ACME_INC == <<"A","c","m","e"," ","I","n","c">>
NAME_BOLT == <<"B","o","l","t">>

\* A company record as the store returns it; its record id is its position
\* in the store.
Company(id, name) == [record_id |-> id, values |-> [name |-> name]]

\* The shapes of a stored company name.
CompanyNameEntries ==
    { <<>>, <<TextEntry(NAME_ACME)>>, <<TextEntry(NAME_ACME_UPPER)>>,
      <<ScalarEntry(NAME_ACME_INC)>> }

\* The names the calls ask for.
SearchNames == {NAME_ACME, NAME_ACME_UPPER, NAME_BOLT}

_extract_company_name(values) ==
    IF values.name = <<>> THEN NoneStr
    ELSE values.name[1].value

\* The store's answer to the query of search_company: the companies whose
\* name contains the searched text, letter case ignored (the store's
\* $contains), oldest first, at most `limit` of them.
Contains(s, part) ==
    \E k \in 0..(Len(s) - Len(part)) : SubSeq(s, k + 1, k + Len(part)) = part

companies_query(st, company_name, limit) ==
    LET Matches(company) ==
            LET name == _extract_company_name(company.values)
            IN  TruthyStr(name) /\ Contains(lower(name), lower(company_name))
    IN  Take(SelectSeq(st, Matches), limit)

\* search_company, given the store's response and the records in it.
search_company_First(company_name, response, found) ==
    IF response /= "ok" \/ found = <<>> THEN NoId ELSE found[1].record_id

search_company(company_name, response, found) ==
    IF response /= "ok" THEN NoId
    ELSE IF found = <<>> THEN NoId
    ELSE LET exact == { k \in DOMAIN found :
                          LET name == _extract_company_name(found[k].values)
                          IN  TruthyStr(name) /\ lower(name) = lower(company_name) }
         IN  IF exact /= {}
             THEN found[CHOOSE k \in exact : \A j \in exact : k <= j].record_id
             ELSE found[1].record_id

\* create_company: the store after the POST, given the store's response.
create_company(st, company_name, response) ==
    IF response = "ok"
    THEN Append(st, Company(Len(st) + 1, <<TextEntry(company_name)>>))
    ELSE st

\* find_or_create_company.  An exception raised by a request ends the call.
find_or_create_company(company_name, search_response, create_response) ==
    /\ Len(created) < MaxCreated
    /\ LET found == IF search_response = "ok"
                    THEN companies_query(companies, company_name, SEARCH_LIMIT)
                    ELSE <<>>
           company_id == search_company(company_name, search_response, found)
           call == [method |-> "find_or_create_company",
                    company_name |-> company_name,
                    search_response |-> search_response,
                    found |-> found]
       IN  IF search_response = "raised" \/ company_id /= NoId
           THEN /\ create_response = "ok"
                /\ last_call' = call @@ [result |-> company_id, creates |-> FALSE]
                /\ UNCHANGED <<companies, created>>
           ELSE /\ companies' = create_company(companies, company_name, create_response)
                /\ created' = IF create_response = "ok"
                              THEN Append(created, company_name) ELSE created
                /\ last_call' = call @@
                     [result |-> IF create_response = "ok" THEN Len(companies) + 1 ELSE NoId,
                      creates |-> create_response = "ok"]
    /\ UNCHANGED <<now, people, driver_vars>>

CompanyInit ==
    /\ NoRun
    /\ now = 0
    /\ people = <<>>
    /\ \E n \in 0..MaxCompanies : \E names \in [1..n -> CompanyNameEntries] :
          companies = [k \in 1..n |-> Company(k, names[k])]
    /\ created = <<>>
    /\ last_call = NoCall

CompanyNext ==
    \E company_name \in SearchNames, search_response \in Responses,
       create_response \in Responses :
        find_or_create_company(company_name, search_response, create_response)

CompanySpec == CompanyInit /\ [][CompanyNext]_vars

\* C17: within one run at most one company is created per case-folded name:
\* of any two find-or-create calls whose names are equal ignoring case, at
\* most one creates a company, also when a company search fails.
C17_OneCompanyPerName ==
    \A a, b \in DOMAIN created :
        a /= b => lower(created[a]) /= lower(created[b])

\* The candidates of the last call whose name equals the searched name,
\* letter case ignored.
ExactCandidates ==
    { k \in DOMAIN last_call.found :
        LET name == _extract_company_name(last_call.found[k].values)
        IN  /\ TruthyStr(name)
            /\ Len(name) = Len(last_call.company_name)
            /\ \A j \in 1..Len(name) :
                  LowerChar(name[j]) = LowerChar(last_call.company_name[j]) }

\* C18: the company resolved from the candidates a search returns is the
\* first candidate whose name equals the searched name ignoring case, if
\* there is one, otherwise the first candidate; a company is created only
\* when the search returned no candidate.
C18_TieBreak ==
    last_call.method = "find_or_create_company"
    => /\ last_call.creates => last_call.found = <<>>
       /\ (last_call.search_response = "ok" /\ last_call.found /= <<>>)
          => /\ ~last_call.creates
             /\ IF ExactCandidates /= {}
                THEN \E k \in ExactCandidates :
                        /\ \A j \in ExactCandidates : k <= j
                        /\ last_call.result = last_call.found[k].record_id
                ELSE last_call.result = last_call.found[1].record_id

\* C18 witness: the search returned two candidates, the second of which is
\* the first to equal the searched name ignoring case, and it was resolved.
C18_Witness ==
    /\ last_call.method = "find_or_create_company"
    /\ last_call.search_response = "ok"
    /\ Len(last_call.found) >= 2
    /\ 1 \notin ExactCandidates
    /\ 2 \in ExactCandidates
    /\ last_call.result = last_call.found[2].record_id
    /\ ~last_call.creates

\* The transition table: the statuses a record may move to from a status.
\* None and "" are the empty status.
TransitionTable(status) ==
    IF status \in {None, "", "pending"} THEN {"sent_to_clay", "failed"}
    ELSE IF status = "sent_to_clay" THEN {"enriched", "failed"}
    ELSE IF status = "enriched" THEN {"company_linked"}
    ELSE {}

\* C22: over any sequence of passes a record's status only moves along the
\* transition table: empty or pending to sent_to_clay or failed, sent_to_clay
\* to enriched or failed, enriched to company_linked; the status of a failed,
\* skipped or company_linked record never changes.
C22_TransitionTable ==
    [][ \A i \in Ids :
          StatusOf(store'[i]) /= StatusOf(store[i])
          => StatusOf(store'[i]) \in TransitionTable(StatusOf(store[i]))
      ]_vars

\* ---------------------------------------------------------- repeated passes
\* The scheduler starts a pass every hour, for ever; the environment is
\* complete, every store request succeeds and the service acknowledges every
\* submission.  The service may or may not hold a row for a pending record.
AllSet == [k \in EnvNames |-> TRUE]

submit_acknowledged ==
    \E clay_row_id \in {None, "row1"} :
        /\ pc = "submit" /\ records /= <<>>
        /\ Truthy(Flat(Head(records)).email) => clay_row_id = "row1"
        /\ submit_record(clay_row_id, "ok")

LiveNext ==
    \/ main(AllSet)
    \/ main_late(AllSet)
    \/ process_pending_enrichments("ok")
    \/ resolve_record("ok")
    \/ send_for_enrichment("ok")
    \/ submit_acknowledged
    \/ summary

LiveSpec == Init /\ [][LiveNext]_vars /\ WF_vars(LiveNext)

SentAtBeforeHorizon ==
    \A i \in Ids :
        store[i].values.clay_sent_at <= MaxTime - ENRICHMENT_TIMEOUT_HOURS - 1

C23_NoStarvation ==
    \A i \in Ids : _needs_enrichment(store[i]) ~> (i \in submit_calls)
====
